---- MODULE Spec2Model ----
(***************************************************************************)
(* A model of the FITS codec of src/libs/astro/sphcart.c (fits.c).         *)
(*                                                                         *)
(* Memory is modelled at the byte level: a header store is the flat array  *)
(* of 80-byte rows that fip->var points to, a pixel buffer is the array of *)
(* bytes that fip->image points to, and a file is the sequence of bytes    *)
(* written to or read from the descriptor fd.  Characters are their ASCII  *)
(* codes, so that a text card and a binary pixel are bytes of one kind.    *)
(***************************************************************************)
EXTENDS Integers, Sequences, FiniteSets, TLC

VARIABLES heap,   \* the malloc arena: address -> [live, bytes]
          fim,    \* the FImage descriptors, by name
          disk,   \* the bytes of the file behind fd
          le,     \* what lendian() returns on this host
          raw,    \* the caller's raw pixel buffer for writeSimpleFITS: [ptr, w, h]
          wrote,  \* history: the image the file on disk was written from
          last,   \* the last call: its name, arguments, environment and results
          steps   \* number of calls made so far

vars == <<heap, fim, disk, le, raw, wrote, last, steps>>

----------------------------------------------------------------------------
(* Program constants *)

FITS_HCOLS == 80
FITS_HROWS == 36
BZERO == 32768
BLOCK == 2880

(* Bounds of the model *)

MaxAddr == 6
MaxSteps == 2
MaxFailCall == 3
MaxMallocFail == 2

----------------------------------------------------------------------------
(* Characters and C strings.  A C string is the sequence of the codes of   *)
(* its characters, without the terminating NUL.                            *)

Printable ==
  << " ", "!", "\"", "#", "$", "%", "&", "'", "(", ")", "*", "+", ",", "-",
     ".", "/", "0", "1", "2", "3", "4", "5", "6", "7", "8", "9", ":", ";",
     "<", "=", ">", "?", "@", "A", "B", "C", "D", "E", "F", "G", "H", "I",
     "J", "K", "L", "M", "N", "O", "P", "Q", "R", "S", "T", "U", "V", "W",
     "X", "Y", "Z", "[", "bsl", "]", "^", "_", "bqt", "a", "b", "c", "d", "e",
     "f", "g", "h", "i", "j", "k", "l", "m", "n", "o", "p", "q", "r", "s",
     "t", "u", "v", "w", "x", "y", "z" >>

Ord(c) == 31 + (CHOOSE i \in 1..Len(Printable) : Printable[i] = c)

Str(t) == [i \in 1..Len(t) |-> Ord(t[i])]

SP == 32

\* character codes
CH_0 == 48

CH_9 == 57

CH_MINUS == 45

CH_PLUS == 43

CH_DOT == 46

CH_EQ == 61

CH_QUOTE == 39

CH_T == 84

CH_t == 116

CH_F == 70

CH_f == 102

\* the keywords that the program and its callers name
Key ==
  [
    BITPIX |-> Str(<<"B", "I", "T", "P", "I", "X">>),
    BSCALE |-> Str(<<"B", "S", "C", "A", "L", "E">>),
    BZERO |-> Str(<<"B", "Z", "E", "R", "O">>),
    COMMENT |-> Str(<<"C", "O", "M", "M", "E", "N", "T">>),
    END |-> Str(<<"E", "N", "D">>),
    ENDTIME |-> Str(<<"E", "N", "D", "T", "I", "M", "E">>),
    EXPTIME |-> Str(<<"E", "X", "P", "T", "I", "M", "E">>),
    GAIN |-> Str(<<"G", "A", "I", "N">>),
    NAXIS |-> Str(<<"N", "A", "X", "I", "S">>),
    NAXIS1 |-> Str(<<"N", "A", "X", "I", "S", "1">>),
    NAXIS2 |-> Str(<<"N", "A", "X", "I", "S", "2">>),
    OFFSET1 |-> Str(<<"O", "F", "F", "S", "E", "T", "1">>),
    OFFSET2 |-> Str(<<"O", "F", "F", "S", "E", "T", "2">>),
    SIMPLE |-> Str(<<"S", "I", "M", "P", "L", "E">>),
    XFACTOR |-> Str(<<"X", "F", "A", "C", "T", "O", "R">>),
    YFACTOR |-> Str(<<"Y", "F", "A", "C", "T", "O", "R">>)
  ]

\* the comments of setSimpleFITSHeader
Comment ==
  [
    Bits_per_pixel |-> Str(<<"B", "i", "t", "s", " ", "p", "e", "r", " ", "p", "i", "x", "e",
            "l">>),
    Camera_upper_left_frame_x |-> Str(<<"C", "a", "m", "e", "r", "a", " ", "u", "p", "p", "e", "r", " ", "l",
            "e", "f", "t", " ", "f", "r", "a", "m", "e", " ", "x">>),
    Camera_upper_left_frame_y |-> Str(<<"C", "a", "m", "e", "r", "a", " ", "u", "p", "p", "e", "r", " ", "l",
            "e", "f", "t", " ", "f", "r", "a", "m", "e", " ", "y">>),
    Camera_x_binning_factor |-> Str(<<"C", "a", "m", "e", "r", "a", " ", "x", " ", "b", "i", "n", "n", "i",
            "n", "g", " ", "f", "a", "c", "t", "o", "r">>),
    Camera_y_binning_factor |-> Str(<<"C", "a", "m", "e", "r", "a", " ", "y", " ", "b", "i", "n", "n", "i",
            "n", "g", " ", "f", "a", "c", "t", "o", "r">>),
    Exposure_time_seconds |-> Str(<<"E", "x", "p", "o", "s", "u", "r", "e", " ", "t", "i", "m", "e", ",",
            " ", "s", "e", "c", "o", "n", "d", "s">>),
    Number_of_columns |-> Str(<<"N", "u", "m", "b", "e", "r", " ", "o", "f", " ", "c", "o", "l", "u",
            "m", "n", "s">>),
    Number_of_dimensions |-> Str(<<"N", "u", "m", "b", "e", "r", " ", "o", "f", " ", "d", "i", "m", "e",
            "n", "s", "i", "o", "n", "s">>),
    Number_of_rows |-> Str(<<"N", "u", "m", "b", "e", "r", " ", "o", "f", " ", "r", "o", "w",
            "s">>),
    Pixel_scale_factor |-> Str(<<"P", "i", "x", "e", "l", " ", "s", "c", "a", "l", "e", " ", "f", "a",
            "c", "t", "o", "r">>),
    Real_Pixel_BSCALE_BZERO |-> Str(<<"R", "e", "a", "l", " ", "=", " ", "P", "i", "x", "e", "l", "*", "B",
            "S", "C", "A", "L", "E", " ", "+", " ", "B", "Z", "E", "R", "O">>),
    Standard_FITS |-> Str(<<"S", "t", "a", "n", "d", "a", "r", "d", " ", "F", "I", "T", "S">>)
  ]

S_DOTS == Str(<<".", ".", ".", " ">>)

S_SLASH == Str(<<" ", "/", " ">>)


BlankBlock == [i \in 1..BLOCK |-> SP]

Spaces(n) == SubSeq(BlankBlock, 1, n)

ZeroBlock == [i \in 1..BLOCK |-> 0]

Zeros(n) == SubSeq(ZeroBlock, 1, n)

Min(a, b) == IF a < b THEN a ELSE b

Max(a, b) == IF a > b THEN a ELSE b

\* a NULL string argument (no comment); no C string holds a 0
NULLSTR == <<0>>

\* printf %-n.ns: the string left-justified in exactly n columns
PadTrunc(s, n) == [i \in 1..n |-> IF i <= Len(s) THEN s[i] ELSE SP]

\* printf %-ns: left-justified in at least n columns, never truncated
PadLeft(s, n) == IF Len(s) >= n THEN s ELSE PadTrunc(s, n)

\* printf %ns: right-justified in at least n columns, never truncated
PadRight(s, n) == IF Len(s) >= n THEN s ELSE Spaces(n - Len(s)) \o s

IsDigit(b) == b >= CH_0 /\ b <= CH_9

IsSpace(b) == b = SP \/ (b >= 9 /\ b <= 13)

RECURSIVE DecDigits(_)
DecDigits(n) ==
  IF n < 10 THEN <<CH_0 + n>>
  ELSE Append(DecDigits(n \div 10), CH_0 + (n % 10))

\* printf %d
Dec(v) == IF v < 0 THEN <<CH_MINUS>> \o DecDigits(-v) ELSE DecDigits(v)

----------------------------------------------------------------------------
(* Real values.  A double is modelled as a whole number of thousandths     *)
(* (the unit of fip->dur); the model formats and parses only values that   *)
(* printf %G prints exactly, i.e. with at most sigdig significant digits.  *)

RECURSIVE StripZeros(_)
StripZeros(s) ==
  IF Len(s) > 0 /\ s[Len(s)] = CH_0 THEN StripZeros(SubSeq(s, 1, Len(s) - 1))
  ELSE s

Abs(v) == IF v < 0 THEN -v ELSE v

\* the three digits of the thousandths, trailing zeros removed
FracDigits(m) ==
  LET f == Abs(m) % 1000
  IN  StripZeros(<<CH_0 + (f \div 100), CH_0 + ((f \div 10) % 10),
                   CH_0 + (f % 10)>>)

\* number of significant digits of m/1000
SigDigits(m) ==
  LET ip == Abs(m) \div 1000
  IN  IF ip > 0 THEN Len(DecDigits(ip)) + Len(FracDigits(m))
      ELSE Len(StripZeros(DecDigits(Abs(m) % 1000)))

\* printf %.*G of m/1000, for the values that need no rounding and no
\* exponent: SigDigits(m) <= sigdig
FmtG(m, sigdig) ==
  LET ip == DecDigits(Abs(m) \div 1000)
      fr == FracDigits(m)
  IN  (IF m < 0 THEN <<CH_MINUS>> ELSE <<>>) \o ip
        \o (IF Len(fr) > 0 THEN <<CH_DOT>> \o fr ELSE <<>>)

----------------------------------------------------------------------------
(* Card formatting: each fmt*FITS returns the 80 bytes it leaves in line.  *)

\* the final 50 columns of a card
fmtInlineComment(line, comment) ==
  LET buf == IF comment # NULLSTR
             THEN S_SLASH \o PadTrunc(comment, 47)
             ELSE Spaces(50)
  IN  SubSeq(line, 1, 30) \o SubSeq(buf, 1, FITS_HCOLS - 30)

fmtLogicalFITS(name, value, comment) ==
  fmtInlineComment(
    PadTrunc(name, 8) \o <<CH_EQ>> \o Spaces(20)
      \o <<IF value # 0 THEN CH_T ELSE CH_F>>,
    comment)

fmtIntFITS(name, value, comment) ==
  LET str  == Dec(value)
      strl == Len(str)
  IN  fmtInlineComment(
        PadTrunc(name, 8) \o <<CH_EQ, SP>> \o Spaces(20 - strl) \o str,
        comment)

fmtRealFITS(name, value, sigdig, comment) ==
  fmtInlineComment(
    PadTrunc(name, 8) \o <<CH_EQ, SP>> \o PadRight(FmtG(value, sigdig), 20),
    comment)

fmtStringFITS(name, value, comment) ==
  LET l0    == Len(value)
      l     == IF l0 < 8 THEN 8 ELSE IF l0 > 68 THEN 68 ELSE l0
      lline == PadTrunc(name, 8) \o <<CH_EQ, SP, CH_QUOTE>> \o PadTrunc(value, l)
                 \o <<CH_QUOTE>> \o Spaces(80 - 12 - l)
      start == Max(12 + l, 30)
  IN  IF comment # NULLSTR /\ l < 80 - 3 - 12
      THEN SubSeq(lline, 1, start) \o S_SLASH
             \o PadTrunc(comment, 80 - 3 - start)
      ELSE lline

fmtENDFITS == PadLeft(Key.END, 79) \o <<SP>>

----------------------------------------------------------------------------
(* Memory.  A machine state m is what a call works on: the arena, the      *)
(* descriptors, and the allocator's environment for this call -- mfail     *)
(* names the allocation that returns NULL, as the n-th call made from the  *)
(* call site mfail.site (NoFail: none); rmove tells whether realloc moves  *)
(* the block; junk is the byte that fresh memory happens to hold.          *)
(* m.afail records that an allocation failed, m.ub that the call did       *)
(* something undefined (a crash at best).                                  *)

NULL == 0

Addr == 1..MaxAddr

Desc == {"a", "b"}

\* the descriptor on the stack of writeSimpleFITS
STACK == "stack"

DeadBlock == [live |-> FALSE, bytes |-> <<>>]

FreeAddrs(h) == {a \in Addr : ~h[a].live}

LowestFree(h) == CHOOSE a \in FreeAddrs(h) : \A b \in FreeAddrs(h) : a <= b

NoFail == [site |-> "none", n |-> 0]

Machine(h, f, env) ==
  [heap |-> h, fim |-> f, nalloc |-> 0, mfail |-> env.mfail, rmove |-> env.rmove,
   znull |-> env.znull, junk |-> env.junk, afail |-> FALSE, ub |-> FALSE]

\* the machine after one more allocation call from site
Counted(m, site) == IF site = m.mfail.site THEN [m EXCEPT !.nalloc = @ + 1] ELSE m

\* whether the allocation now made from site is the one that fails
Fails(m, site) == site = m.mfail.site /\ m.nalloc + 1 = m.mfail.n

\* malloc(size) called from site: [m, p]; a negative int is a huge size_t,
\* and whether malloc(0) returns NULL is the implementation's choice (znull)
malloc(m, size, site) ==
  IF Fails(m, site) \/ size < 0 \/ (size = 0 /\ m.znull) \/ FreeAddrs(m.heap) = {}
  THEN [m |-> [Counted(m, site) EXCEPT !.afail = TRUE], p |-> NULL]
  ELSE LET p == LowestFree(m.heap)
       IN  [m |-> [Counted(m, site) EXCEPT
                     !.heap[p] = [live |-> TRUE, bytes |-> [i \in 1..size |-> m.junk]]],
            p |-> p]

\* free(p), p not NULL; freeing what is not allocated is undefined
free(m, p) ==
  IF m.heap[p].live THEN [m EXCEPT !.heap[p] = DeadBlock]
  ELSE [m EXCEPT !.ub = TRUE]

\* realloc(old, size), old not NULL: [m, p]; on failure the old block stays
realloc(m, old, size, site) ==
  LET keep == m.heap[old].bytes
      cont == IF size <= Len(keep) THEN SubSeq(keep, 1, size)
              ELSE keep \o [i \in 1..(size - Len(keep)) |-> m.junk]
  IN  IF Fails(m, site) \/ size < 0
      THEN [m |-> [Counted(m, site) EXCEPT !.afail = TRUE], p |-> NULL]
      ELSE IF m.rmove /\ FreeAddrs(m.heap) # {}
      THEN LET p == LowestFree(m.heap)
           IN  [m |-> [Counted(m, site) EXCEPT
                         !.heap[p] = [live |-> TRUE, bytes |-> cont],
                         !.heap[old] = DeadBlock],
                p |-> p]
      ELSE [m |-> [Counted(m, site) EXCEPT !.heap[old].bytes = cont], p |-> old]

\* memcpy(dst + off, src, Len(src)) into block p (off counts from 0)
Poke(m, p, off, src) ==
  [m EXCEPT !.heap[p].bytes =
     SubSeq(@, 1, off) \o src \o SubSeq(@, off + Len(src) + 1, Len(@))]

\* row i (from 0) of the array of FITSRow at p
RowAt(m, p, i) == SubSeq(m.heap[p].bytes, i * FITS_HCOLS + 1, (i + 1) * FITS_HCOLS)

----------------------------------------------------------------------------
(* The image descriptor *)

InitFImage ==
  [var |-> NULL, nvar |-> 0, image |-> NULL, sw |-> 0, sh |-> 0, sx |-> 0,
   sy |-> 0, bx |-> 1, by |-> 1, dur |-> 0, bitpix |-> 0]

initFImage(m, d) == [m EXCEPT !.fim[d] = InitFImage]

\* a reset that releases and clears nothing
resetFImageKept(m, d) == m

resetFImage(m, d) ==
  LET fip == m.fim[d]
      m1  == IF fip.var # NULL THEN free(m, fip.var) ELSE m
      m2  == IF fip.image # NULL THEN free(m1, fip.image) ELSE m1
  IN  initFImage(m2, d)

----------------------------------------------------------------------------
(* The header store *)

\* the index of the first row whose 8-byte keyword is name, or -1;
\* the caller must hold nvar rows (see StoreReadable)
findFImageVar(m, d, name) ==
  LET fip   == m.fim[d]
      field == PadTrunc(name, 8)
      hits  == {i \in 0..(fip.nvar - 1) :
                  SubSeq(RowAt(m, fip.var, i), 1, 8) = field}
  IN  IF hits = {} THEN -1 ELSE CHOOSE i \in hits : \A j \in hits : i <= j

\* whether the rows that findFImageVar walks over are there to be read
StoreReadable(m, d) ==
  LET fip == m.fim[d]
  IN  fip.nvar > 0 =>
        /\ fip.var # NULL
        /\ m.heap[fip.var].live
        /\ Len(m.heap[fip.var].bytes) >= fip.nvar * FITS_HCOLS

addFImageVar(m, d, row) ==
  LET fip  == m.fim[d]
      newn == fip.nvar + 1
      r    == IF fip.var # NULL
              THEN realloc(m, fip.var, newn * FITS_HCOLS, "addFImageVar")
              ELSE malloc(m, newn * FITS_HCOLS, "addFImageVar")
  IN  IF r.p = NULL THEN r.m
      ELSE [Poke(r.m, r.p, fip.nvar * FITS_HCOLS, row)
              EXCEPT !.fim[d].var = r.p, !.fim[d].nvar = newn]

\* [m, ret]
delFImageVar(m, d, name) ==
  LET fip == m.fim[d]
  IN  IF fip.var = NULL THEN [m |-> m, ret |-> -1]
      ELSE IF ~StoreReadable(m, d) THEN [m |-> [m EXCEPT !.ub = TRUE], ret |-> -1]
      ELSE LET rp == findFImageVar(m, d, name)
           IN  IF rp < 0 THEN [m |-> m, ret |-> -1]
               ELSE LET newn == fip.nvar - 1
                        r    == malloc(m, newn * FITS_HCOLS, "delFImageVar")
                        old  == m.heap[fip.var].bytes
                        kept == SubSeq(old, 1, rp * FITS_HCOLS)
                                  \o SubSeq(old, (rp + 1) * FITS_HCOLS + 1,
                                            fip.nvar * FITS_HCOLS)
                    IN  IF r.p = NULL THEN [m |-> r.m, ret |-> -1]
                        ELSE [m |-> [free(Poke(r.m, r.p, 0, kept), fip.var)
                                       EXCEPT !.fim[d].var = r.p,
                                              !.fim[d].nvar = newn],
                              ret |-> 0]

----------------------------------------------------------------------------
(* Setters: replace the first row named name in place, else append.  Each  *)
(* returns the machine state it leaves.  Walking a store whose rows are    *)
(* not there is undefined.                                                 *)

\* a setter that never looks for the card it is to replace
SetRowAppended(m, d, name, row) ==
  IF ~StoreReadable(m, d) THEN [m EXCEPT !.ub = TRUE] ELSE addFImageVar(m, d, row)

SetRow(m, d, name, row) ==
  IF ~StoreReadable(m, d) THEN [m EXCEPT !.ub = TRUE]
  ELSE LET rp == findFImageVar(m, d, name)
       IN  IF rp >= 0 THEN Poke(m, m.fim[d].var, rp * FITS_HCOLS, row)
           ELSE addFImageVar(m, d, row)

setLogicalFITS(m, d, name, v, comment) ==
  SetRow(m, d, name, fmtLogicalFITS(name, v, comment))

setIntFITS(m, d, name, v, comment) ==
  SetRow(m, d, name, fmtIntFITS(name, v, comment))

setRealFITS(m, d, name, v, sigdig, comment) ==
  SetRow(m, d, name, fmtRealFITS(name, v, sigdig, comment))

setStringFITS(m, d, name, string, comment) ==
  SetRow(m, d, name, fmtStringFITS(name, string, comment))

RECURSIVE CommentLoop(_, _, _, _, _)
CommentLoop(m, d, name, comment, n) ==
  IF n >= Len(comment) THEN m
  ELSE IF n = 0
  THEN CommentLoop(addFImageVar(m, d, PadTrunc(name, 8) \o PadTrunc(comment, 72)),
                   d, name, comment, n + 72)
  ELSE CommentLoop(addFImageVar(m, d,
                     PadTrunc(name, 8) \o S_DOTS
                       \o PadTrunc(SubSeq(comment, n + 1, Len(comment)), 68)),
                   d, name, comment, n + 68)

setCommentFITS(m, d, name, comment) == CommentLoop(m, d, name, comment, 0)

----------------------------------------------------------------------------
(* Getters.  atoi and atof scan the memory that starts at column 11 of the *)
(* row; a row is not NUL-terminated, so the scan is over the rest of the   *)
(* block.  The numbers of the model's cards end inside their row; a scan   *)
(* that reaches the end of the block stops there.                         *)

RECURSIVE SkipSpace(_, _)
SkipSpace(s, i) == IF i <= Len(s) /\ IsSpace(s[i]) THEN SkipSpace(s, i + 1) ELSE i

\* [v, i]: the value of the digits from i on, and the index after them
RECURSIVE ScanDigits(_, _, _)
ScanDigits(s, i, acc) ==
  IF i <= Len(s) /\ IsDigit(s[i])
  THEN ScanDigits(s, i + 1, acc * 10 + (s[i] - CH_0))
  ELSE [v |-> acc, i |-> i]

HasSign(s, i) == i <= Len(s) /\ (s[i] = CH_MINUS \/ s[i] = CH_PLUS)

\* atoi of the bytes of s from index start on
atoi(s, start) ==
  LET i == SkipSpace(s, start)
      j == IF HasSign(s, i) THEN i + 1 ELSE i
      v == ScanDigits(s, j, 0).v
  IN  IF HasSign(s, i) /\ s[i] = CH_MINUS THEN -v ELSE v

\* atof of the bytes of s from index start to index stop, in thousandths,
\* for text in fixed notation (the exponent, and with it the D-for-E
\* substitution of getRealFITS, is outside the model's reals)
atofMilli(s0, start, stop) ==
  LET s  == SubSeq(s0, 1, Min(stop, Len(s0)))
      i  == SkipSpace(s, start)
      j  == IF HasSign(s, i) THEN i + 1 ELSE i
      ip == ScanDigits(s, j, 0)
      fr == IF ip.i <= Len(s) /\ s[ip.i] = CH_DOT
            THEN LET f == ScanDigits(s, ip.i + 1, 0)
                     k == f.i - (ip.i + 1)
                 IN  IF k = 0 THEN 0
                     ELSE IF k = 1 THEN f.v * 100
                     ELSE IF k = 2 THEN f.v * 10
                     ELSE ScanDigits(s, ip.i + 1, 0).v \div (10 ^ (k - 3))
            ELSE 0
      v  == ip.v * 1000 + fr
  IN  IF HasSign(s, i) /\ s[i] = CH_MINUS THEN -v ELSE v

\* [ret, v]
getLogicalFITS(m, d, name) ==
  LET rp == findFImageVar(m, d, name)
  IN  IF rp < 0 THEN [ret |-> -1, v |-> 0]
      ELSE LET c == RowAt(m, m.fim[d].var, rp)[30]
           IN  IF c = CH_T \/ c = CH_t THEN [ret |-> 0, v |-> 1]
               ELSE IF c = CH_F \/ c = CH_f THEN [ret |-> 0, v |-> 0]
               ELSE [ret |-> -1, v |-> 0]

\* [ret, v]
getIntFITS(m, d, name) ==
  LET rp == findFImageVar(m, d, name)
  IN  IF rp < 0 THEN [ret |-> -1, v |-> 0]
      ELSE [ret |-> 0, v |-> atoi(m.heap[m.fim[d].var].bytes, rp * FITS_HCOLS + 11)]

\* [ret, v], v in thousandths
getRealFITS(m, d, name) ==
  LET rp == findFImageVar(m, d, name)
  IN  IF rp < 0 THEN [ret |-> -1, v |-> 0]
      ELSE [ret |-> 0,
            v |-> atofMilli(m.heap[m.fim[d].var].bytes, rp * FITS_HCOLS + 11,
                            rp * FITS_HCOLS + 40)]

RECURSIVE RTrim(_)
RTrim(s) == IF Len(s) > 0 /\ s[Len(s)] = SP THEN RTrim(SubSeq(s, 1, Len(s) - 1)) ELSE s

\* [ret, string]
getStringFITS(m, d, name) ==
  LET rp == findFImageVar(m, d, name)
  IN  IF rp < 0 THEN [ret |-> -1, string |-> <<>>]
      ELSE LET row    == RowAt(m, m.fim[d].var, rp)
               quotes == {i \in 12..FITS_HCOLS : row[i] = CH_QUOTE}
           IN  IF row[11] # CH_QUOTE \/ quotes = {}
               THEN [ret |-> -1, string |-> <<>>]
               ELSE LET q == CHOOSE i \in quotes : \A j \in quotes : i <= j
                    IN  [ret |-> 0, string |-> RTrim(SubSeq(row, 12, q - 1))]

\* [m, ret, buf]: the row is written to as well as read
getCommentFITS(m, d, name) ==
  LET rp == findFImageVar(m, d, name)
  IN  IF rp < 0 THEN [m |-> m, ret |-> -1, buf |-> <<>>]
      ELSE [m   |-> Poke(m, m.fim[d].var, rp * FITS_HCOLS + 72, <<0>>),
            ret |-> 0,
            buf |-> SubSeq(RowAt(m, m.fim[d].var, rp), 1, 72)]

\* [ret, n1, n2, errmsg]
getNAXIS(m, d) ==
  LET n  == getIntFITS(m, d, Key.NAXIS)
      n1 == getIntFITS(m, d, Key.NAXIS1)
      n2 == getIntFITS(m, d, Key.NAXIS2)
      naxisi(i) == Key.NAXIS \o Dec(i)
      higher == 3..n.v
      missing == {i \in higher : getIntFITS(m, d, naxisi(i)).ret < 0}
      firstBad == {i \in higher :
                     /\ getIntFITS(m, d, naxisi(i)).ret < 0
                          \/ getIntFITS(m, d, naxisi(i)).v # 1
                     /\ \A j \in 3..(i - 1) :
                          /\ getIntFITS(m, d, naxisi(j)).ret = 0
                          /\ getIntFITS(m, d, naxisi(j)).v = 1}
      bad(msg) == [ret |-> -1, n1 |-> 0, n2 |-> 0, errmsg |-> msg]
  IN  IF n.ret < 0 THEN bad("No NAXIS")
      ELSE IF firstBad # {}
      THEN (IF firstBad \subseteq missing THEN bad("NAXIS=n but no NAXISi")
            ELSE bad("Require NAXISi to be 1"))
      ELSE IF n1.ret < 0 THEN bad("No NAXIS1")
      ELSE IF n2.ret < 0 THEN bad("No NAXIS2")
      ELSE [ret |-> 0, n1 |-> n1.v, n2 |-> n2.v, errmsg |-> ""]

----------------------------------------------------------------------------
(* The pixel codec.  Pixels are read from and written to memory as the     *)
(* host does it: lend tells whether the low byte comes first.              *)

\* byte i (0: lowest) of the two's complement representation of v
Byte(v, i) == (v \div (256 ^ i)) % 256

\* the unsigned short at index k (from 0) of the array at bytes
Load16(bytes, k, lend) ==
  IF lend THEN bytes[2 * k + 1] + 256 * bytes[2 * k + 2]
  ELSE 256 * bytes[2 * k + 1] + bytes[2 * k + 2]

\* the two bytes of the unsigned short v in memory
Store16(v, lend) ==
  IF lend THEN <<Byte(v, 0), Byte(v, 1)>> ELSE <<Byte(v, 1), Byte(v, 0)>>

\* A 32-bit word is the tuple of its four bytes, the most significant
\* first (the model's integers are no wider than the program's).
\* The unsigned int at index k (from 0) of the array at bytes:
Load32(bytes, k, lend) ==
  LET b(j) == bytes[4 * k + j]
  IN  IF lend THEN <<b(4), b(3), b(2), b(1)>> ELSE <<b(1), b(2), b(3), b(4)>>

\* u + c modulo 2^32, for 0 <= c < 65536
Add32(u, c) ==
  LET lo == u[3] * 256 + u[4] + c
      hi == u[1] * 256 + u[2] + (lo \div 65536)
  IN  <<Byte(hi, 1), Byte(hi, 0), Byte(lo, 1), Byte(lo, 0)>>

\* the low 16 bits of a word: its conversion to unsigned short
Low16(u) == u[3] * 256 + u[4]

\* the memory of the unsigned shorts of the sequence val
Shorts(val, lend) ==
  [i \in 1..(2 * Len(val)) |-> Store16(val[((i - 1) \div 2) + 1], lend)[((i - 1) % 2) + 1]]

\* the values of the n unsigned shorts in memory at bytes
Samples(bytes, n, lend) == [k \in 1..n |-> Load16(bytes, k - 1, lend)]

\* one pixel of enFITSPixels: the unsigned short it stores for the value v
enPixel(v, lend) ==
  LET p0 == v - BZERO
  IN  IF lend THEN Byte(p0, 0) * 256 + Byte(p0, 1)   \* ((p0<<8)&0xff00)|((p0>>8)&0xff)
      ELSE p0 % 65536

\* unFITSPixels without the byte swap of a little-endian host
unPixelUnswapped(p0, lend) == (p0 + BZERO) % 65536

\* one pixel of unFITSPixels
unPixel(p0, lend) ==
  IF lend THEN (p0 * 256 + Byte(p0, 1) + BZERO) % 65536  \* ((p0<<8)|((p0>>8)&0xff))+BZERO
  ELSE (p0 + BZERO) % 65536

\* the 4-byte swap of unFITSPixelsInt and unFITSPixelsFloat:
\* ((p0<<24)&0xFF000000)|((p0<<8)&0x00FF0000)|((p0>>8)&0x0000FF00)|((p0>>24)&0xFF)
Swap32(p0) == <<p0[4], p0[3], p0[2], p0[1]>>

\* unFITSPixelsInt without the byte swap of a little-endian host
unPixelIntUnswapped(u, lend) == Add32(u, BZERO)

\* one pixel of unFITSPixelsInt: the unsigned int it stores
unPixelInt(u, lend) == IF lend THEN Add32(Swap32(u), BZERO) ELSE Add32(u, BZERO)

\* one pixel of unFITSPixelsFloat: the bits of the float it stores
unPixelFloat(u, lend) == IF lend THEN Swap32(u) ELSE u

\* the first npix unsigned shorts of image converted in place
enFITSPixels(image, npix, lend) ==
  [i \in 1..Len(image) |->
     IF i <= 2 * npix
     THEN Store16(enPixel(Load16(image, (i - 1) \div 2, lend), lend), lend)[((i - 1) % 2) + 1]
     ELSE image[i]]

unFITSPixels(image, npix, lend) ==
  [i \in 1..Len(image) |->
     IF i <= 2 * npix
     THEN Store16(unPixel(Load16(image, (i - 1) \div 2, lend), lend), lend)[((i - 1) % 2) + 1]
     ELSE image[i]]

\* readFITS, BITPIX 16: the internal value of pixel k of the file data
FromShort(imdata, k, lend) == unPixel(Load16(imdata, k, lend), lend)

\* readFITS, BITPIX 32: (unsigned short)((int* )imdata)[k] after unFITSPixelsInt
FromInt(imdata, k, lend) == Low16(unPixelInt(Load32(imdata, k, lend), lend))

\* readFITS, BITPIX -32: the float clamped to [0, 65535] and truncated.
\* The conversion of a NaN to unsigned short is undefined: nan is the
\* value the build happens to give.
FromFloat(imdata, k, lend, nan) ==
  LET u    == unPixelFloat(Load32(imdata, k, lend), lend)
      sign == u[1] \div 128
      e    == (u[1] % 128) * 2 + (u[2] \div 128)
      mant == (u[2] % 128) * 65536 + u[3] * 256 + u[4]
  IN  IF e = 255 /\ mant # 0 THEN nan
      ELSE IF sign = 1 THEN 0
      ELSE IF e < 127 THEN 0
      ELSE IF e - 127 >= 16 THEN 65535
      ELSE (2 ^ 23 + mant) \div (2 ^ (23 - (e - 127)))

----------------------------------------------------------------------------
(* The transport behind fd.  io = [data, pos, calls, tr]: the bytes of the *)
(* file, the offset of fd, the number of read/write calls made, and the    *)
(* behaviour tr of the transport during this call: call number             *)
(* tr.shortCall transfers at most tr.chunk bytes (0: every call is whole), *)
(* and call number tr.failCall returns tr.failRes (0 or -1) instead of     *)
(* transferring (0: no call fails).                                        *)

Io(data, tr) ==
  [data |-> data, pos |-> 0, calls |-> 0, tr |-> tr,
   short |-> FALSE,   \* a call transferred some, but not all, of what was asked
   eof   |-> FALSE,   \* a read found the data at its end
   inj   |-> "none"]  \* the failure the transport produced: "zero" or "neg"

Limit(io, n) == IF io.calls + 1 = io.tr.shortCall THEN Min(n, io.tr.chunk) ELSE n

\* write(fd, buf, Len(buf)): [io, n]
SysWrite(io, buf) ==
  LET c == io.calls + 1
      n == Limit(io, Len(buf))
  IN  IF c = io.tr.failCall
      THEN [io |-> [io EXCEPT !.calls = c,
                              !.inj = IF io.tr.failRes < 0 THEN "neg" ELSE "zero"],
            n |-> io.tr.failRes]
      ELSE [io |-> [io EXCEPT !.calls = c,
                              !.data = SubSeq(@, 1, io.pos) \o SubSeq(buf, 1, n),
                              !.pos = @ + n,
                              !.short = @ \/ n < Len(buf)],
            n |-> n]

\* read(fd, buf, n): [io, s, buf]
SysRead(io, n) ==
  LET c == io.calls + 1
      s == Min(Limit(io, n), Len(io.data) - io.pos)
      left == Len(io.data) - io.pos
  IN  IF c = io.tr.failCall
      THEN [io |-> [io EXCEPT !.calls = c,
                              !.inj = IF io.tr.failRes < 0 THEN "neg" ELSE "zero"],
            s |-> io.tr.failRes, buf |-> <<>>]
      ELSE [io |-> [io EXCEPT !.calls = c, !.pos = @ + s,
                              !.short = @ \/ (s < n /\ s < left),
                              !.eof = @ \/ left < n],
            s |-> s, buf |-> SubSeq(io.data, io.pos + 1, io.pos + s)]

----------------------------------------------------------------------------
(* Block I/O *)

\* blank rows that forget the row of END
npadOfStore(nvar) == (FITS_HROWS - (nvar % FITS_HROWS)) % FITS_HROWS

\* the blank rows that writeFITSHeader adds after the nvar rows and END
npadOf(nvar) == (FITS_HROWS - ((nvar + 1) % FITS_HROWS)) % FITS_HROWS

\* writeFITSHeader(fip, fd, errmsg): [m, io, ret, errmsg]
writeFITSHeader(m, d, io) ==
  LET nvar   == m.fim[d].nvar
      npad   == npadOf(nvar)
      nbytes == (nvar + 1 + npad) * FITS_HCOLS
      r      == malloc(m, nbytes, "writeFITSHeader")
      hdr    == (IF nvar = 0 THEN <<>>
                 ELSE SubSeq(m.heap[m.fim[d].var].bytes, 1, nvar * FITS_HCOLS))
                  \o fmtENDFITS \o Spaces(npad * FITS_HCOLS)
      w      == SysWrite(io, hdr)
  IN  IF r.p = NULL
      THEN [m |-> r.m, io |-> io, ret |-> -1, errmsg |-> "Can not malloc for padded FITS header"]
      ELSE IF nvar > 0 /\ ~StoreReadable(m, d)
      THEN [m |-> [free(r.m, r.p) EXCEPT !.ub = TRUE], io |-> io, ret |-> -1, errmsg |-> ""]
      ELSE IF w.n # nbytes
      THEN [m |-> free(r.m, r.p), io |-> w.io, ret |-> -1,
            errmsg |-> IF w.n < 0 THEN "strerror" ELSE "Short write of FITS header"]
      ELSE [m |-> free(r.m, r.p), io |-> w.io, ret |-> 0, errmsg |-> ""]

\* the write loop of writeFITS: [io, n, nw], n the result of the last write
RECURSIVE PixelWriteLoop(_, _, _)
PixelWriteLoop(io, buf, nw) ==
  IF nw >= Len(buf) THEN [io |-> io, n |-> 1, nw |-> nw]
  ELSE LET w == SysWrite(io, SubSeq(buf, nw + 1, Len(buf)))
       IN  IF w.n <= 0 THEN [io |-> w.io, n |-> w.n, nw |-> nw]
           ELSE PixelWriteLoop(w.io, buf, nw + w.n)

\* the write loop of pad_2880
RECURSIVE PadWriteLoop(_, _, _)
PadWriteLoop(io, padbuf, nw) ==
  IF nw >= Len(padbuf) THEN [io |-> io, n |-> 1, nw |-> nw]
  ELSE LET w == SysWrite(io, SubSeq(padbuf, nw + 1, Len(padbuf)))
       IN  IF w.n <= 0 THEN [io |-> w.io, n |-> w.n, nw |-> nw]
           ELSE PadWriteLoop(w.io, padbuf, nw + w.n)

\* the zero bytes that pad_2880 adds to nbytes
padCount(nbytes) == (BLOCK - (nbytes % BLOCK)) % BLOCK

\* pad_2880(fd, nbytes, errmsg): [io, ret, errmsg]
pad_2880(io, nbytes0) ==
  LET nbytes == padCount(nbytes0)
      l      == PadWriteLoop(io, Zeros(nbytes), 0)
  IN  IF nbytes = 0 THEN [io |-> io, ret |-> 0, errmsg |-> ""]
      ELSE IF l.n <= 0
      THEN [io |-> l.io, ret |-> -1,
            errmsg |-> IF l.nw < 0 THEN "strerror" ELSE "Error adding padding"]
      ELSE [io |-> l.io, ret |-> 0, errmsg |-> ""]

----------------------------------------------------------------------------
(* File-level orchestration *)

\* whether fip->image points to at least sw*sh unsigned shorts
ImageReadable(m, d) ==
  LET fip == m.fim[d]
  IN  /\ fip.image # NULL
      /\ m.heap[fip.image].live
      /\ fip.sw * fip.sh >= 0
      /\ Len(m.heap[fip.image].bytes) >= fip.sw * fip.sh * 2

\* writeFITS(fd, fip, errmsg, restore): [m, io, ret, errmsg]
writeFITS(m, d, io, lend, restore) ==
  LET fip    == m.fim[d]
      h      == writeFITSHeader(m, d, io)
      npix   == fip.sw * fip.sh
      nbytes == npix * 2
      en     == [h.m EXCEPT !.heap[fip.image].bytes = enFITSPixels(@, npix, lend)]
      un     == [en EXCEPT !.heap[fip.image].bytes = unFITSPixels(@, npix, lend)]
      l      == PixelWriteLoop(h.io, SubSeq(en.heap[fip.image].bytes, 1, nbytes), 0)
      p      == pad_2880(l.io, nbytes)
  IN  IF fip.image = NULL
      THEN [m |-> m, io |-> io, ret |-> -1, errmsg |-> "No pixels :-("]
      ELSE IF h.ret < 0 THEN h
      ELSE IF ~ImageReadable(m, d)
      THEN [m |-> [h.m EXCEPT !.ub = TRUE], io |-> h.io, ret |-> -1, errmsg |-> ""]
      ELSE IF l.n <= 0
      THEN [m |-> IF restore # 0 THEN un ELSE en, io |-> l.io, ret |-> -1,
            errmsg |-> IF l.nw < 0 THEN "strerror" ELSE "Short write of FITS pixels"]
      ELSE IF p.ret < 0
      THEN [m |-> en, io |-> p.io, ret |-> -1, errmsg |-> p.errmsg]
      ELSE [m |-> IF restore # 0 THEN un ELSE en, io |-> p.io, ret |-> 0, errmsg |-> ""]

\* the read loop of readFITSHeader: [m, io, ok, errmsg]
RECURSIVE HeaderLoop(_, _, _, _, _)
HeaderLoop(m, d, io, nrows, sawend) ==
  LET r      == SysRead(io, FITS_HCOLS)
      nrows1 == nrows + 1
      isend  == SubSeq(r.buf, 1, 3) = Key.END
      m1     == IF ~sawend /\ ~isend THEN addFImageVar(m, d, r.buf) ELSE m
  IN  IF r.s # FITS_HCOLS
      THEN IF r.s < 0 THEN [m |-> m, io |-> r.io, ok |-> FALSE, errmsg |-> "strerror"]
           ELSE IF sawend THEN [m |-> m, io |-> r.io, ok |-> TRUE, errmsg |-> ""]
           ELSE [m |-> m, io |-> r.io, ok |-> FALSE, errmsg |-> "header is short"]
      ELSE IF ~(sawend \/ isend) \/ nrows1 % FITS_HROWS # 0
      THEN HeaderLoop(m1, d, r.io, nrows1, sawend \/ isend)
      ELSE [m |-> m1, io |-> r.io, ok |-> TRUE, errmsg |-> ""]

\* readFITSHeader(fd, fip, errmsg): [m, io, ret, errmsg]
readFITSHeader(m, d, io) ==
  LET l      == HeaderLoop(initFImage(m, d), d, io, 0, FALSE)
      simple == getLogicalFITS(l.m, d, Key.SIMPLE)
      bitpix == getIntFITS(l.m, d, Key.BITPIX)
      naxis  == getNAXIS(l.m, d)
      xf     == getIntFITS(l.m, d, Key.XFACTOR)
      yf     == getIntFITS(l.m, d, Key.YFACTOR)
      o1     == getIntFITS(l.m, d, Key.OFFSET1)
      o2     == getIntFITS(l.m, d, Key.OFFSET2)
      exp    == getRealFITS(l.m, d, Key.EXPTIME)
      err(msg) == [m |-> resetFImage(l.m, d), io |-> l.io, ret |-> -1, errmsg |-> msg]
  IN  IF ~l.ok THEN err(l.errmsg)
      ELSE IF simple.ret < 0 \/ simple.v = 0
      THEN err("File must claim to be a SIMPLE image.")
      ELSE IF bitpix.ret < 0 \/ (bitpix.v # 16 /\ bitpix.v # 32 /\ bitpix.v # -32)
      THEN err("File must include BITPIX value of 16, 32, or -32")
      ELSE IF naxis.ret < 0 THEN err(naxis.errmsg)
      ELSE [m |-> [l.m EXCEPT !.fim[d].bitpix = bitpix.v,
                              !.fim[d].sw = naxis.n1,
                              !.fim[d].sh = naxis.n2,
                              !.fim[d].bx = IF xf.ret = 0 THEN xf.v ELSE @,
                              !.fim[d].by = IF yf.ret = 0 THEN yf.v ELSE @,
                              !.fim[d].sx = IF o1.ret = 0 THEN o1.v ELSE @,
                              !.fim[d].sy = IF o2.ret = 0 THEN o2.v ELSE @,
                              !.fim[d].dur = IF exp.ret = 0 THEN exp.v ELSE @],
            io |-> l.io, ret |-> 0, errmsg |-> ""]

\* the read loop of readFITS: [io, s, buf], s the result of the last read
RECURSIVE PixelReadLoop(_, _, _)
PixelReadLoop(io, buf, nbytesfile) ==
  IF Len(buf) >= nbytesfile THEN [io |-> io, s |-> 1, buf |-> buf]
  ELSE LET r == SysRead(io, nbytesfile - Len(buf))
       IN  IF r.s <= 0 THEN [io |-> r.io, s |-> r.s, buf |-> buf]
           ELSE PixelReadLoop(r.io, buf \o r.buf, nbytesfile)

\* readFITS after its call of readFITSHeader, which left h
readFITSPixels(h, d, lend) ==
  LET fip         == h.m.fim[d]
      npixels     == fip.sw * fip.sh
      nbytesfile  == (npixels * Abs(fip.bitpix)) \div 8
      nbytesimage == npixels * 2
      im          == malloc(h.m, nbytesimage, "readFITS.image")
      tmp         == malloc(im.m, nbytesfile, "readFITS.imdata")
      \* read(fd, NULL, n) fails with EFAULT
      l           == IF tmp.p = NULL /\ nbytesfile > 0
                     THEN [io |-> h.io, s |-> -1, buf |-> <<>>]
                     ELSE PixelReadLoop(h.io, <<>>, nbytesfile)
      nan         == tmp.m.junk * 257
      val(k)      == IF fip.bitpix = 16 THEN FromShort(l.buf, k, lend)
                     ELSE IF fip.bitpix = 32 THEN FromInt(l.buf, k, lend)
                     ELSE FromFloat(l.buf, k, lend, nan)
      done        == IF tmp.p = NULL THEN tmp.m ELSE free(tmp.m, tmp.p)
  IN  IF h.ret < 0 THEN h
      ELSE IF im.p = NULL
      THEN [m |-> resetFImage(im.m, d), io |-> h.io, ret |-> -1,
            errmsg |-> "Could not malloc for pixels"]
      ELSE IF l.s <= 0
      THEN [m |-> LET m1 == resetFImage([tmp.m EXCEPT !.fim[d].image = im.p], d)
                  IN  IF tmp.p = NULL THEN m1 ELSE free(m1, tmp.p),
            io |-> l.io, ret |-> -1,
            errmsg |-> IF l.s < 0 THEN "strerror" ELSE "data is short"]
      ELSE [m |-> [done EXCEPT !.heap[im.p].bytes =
                                 Shorts([k \in 1..npixels |-> val(k - 1)], lend),
                               !.fim[d].image = im.p,
                               !.fim[d].bitpix = 16],
            io |-> l.io, ret |-> 0, errmsg |-> ""]

\* readFITS(fd, fip, errmsg): [m, io, ret, errmsg]
readFITS(m, d, io, lend) == readFITSPixels(readFITSHeader(m, d, io), d, lend)

\* setSimpleFITSHeader(fip)
setSimpleFITSHeader(m, d) ==
  LET fip == m.fim[d]
      m1  == setLogicalFITS(m, d, Key.SIMPLE, 1, Comment.Standard_FITS)
      m2  == setIntFITS(m1, d, Key.BITPIX, fip.bitpix, Comment.Bits_per_pixel)
      m3  == setIntFITS(m2, d, Key.NAXIS, 2, Comment.Number_of_dimensions)
      m4  == setIntFITS(m3, d, Key.NAXIS1, fip.sw, Comment.Number_of_columns)
      m5  == setIntFITS(m4, d, Key.NAXIS2, fip.sh, Comment.Number_of_rows)
      m6  == setRealFITS(m5, d, Key.BZERO, BZERO * 1000, 6, Comment.Real_Pixel_BSCALE_BZERO)
      m7  == setRealFITS(m6, d, Key.BSCALE, 1000, 6, Comment.Pixel_scale_factor)
      m8  == setIntFITS(m7, d, Key.OFFSET1, fip.sx, Comment.Camera_upper_left_frame_x)
      m9  == setIntFITS(m8, d, Key.OFFSET2, fip.sy, Comment.Camera_upper_left_frame_y)
      m10 == setIntFITS(m9, d, Key.XFACTOR, fip.bx, Comment.Camera_x_binning_factor)
      m11 == setIntFITS(m10, d, Key.YFACTOR, fip.by, Comment.Camera_y_binning_factor)
  IN  setRealFITS(m11, d, Key.EXPTIME, fip.dur, 6, Comment.Exposure_time_seconds)

\* writeSimpleFITS(fd, pix, w, h, x, y, dur, restore): [m, io, ret, errmsg];
\* fimage lives on the stack and is gone when the call returns
writeSimpleFITS(m, io, lend, pix, w, h, x, y, dur, restore) ==
  LET m1 == [initFImage(m, STACK) EXCEPT !.fim[STACK].sw = w,
                                         !.fim[STACK].sh = h,
                                         !.fim[STACK].sx = x,
                                         !.fim[STACK].sy = y,
                                         !.fim[STACK].dur = dur,
                                         !.fim[STACK].bitpix = 16,
                                         !.fim[STACK].image = pix]
  IN  [writeFITS(setSimpleFITSHeader(m1, STACK), STACK, io, lend, restore)
         EXCEPT !.m = initFImage(@, STACK)]

\* a copy of the structure alone: tip gets the pointer of fip
copyFITSHeaderShallow(m, tip, fip) ==
  [m |-> [m EXCEPT !.fim[tip] = [m.fim[fip] EXCEPT !.image = m.fim[tip].image]],
   ret |-> 0]

\* copyFITSHeader(tip, fip): [m, ret]
copyFITSHeader(m, tip, fip) ==
  LET image  == m.fim[tip].image
      m1     == [m EXCEPT !.fim[tip] = [m.fim[fip] EXCEPT !.image = image]]
      nbytes == m.fim[fip].nvar * FITS_HCOLS
      r      == malloc(m1, nbytes, "copyFITSHeader")
  IN  IF m.fim[fip].var = NULL THEN [m |-> m1, ret |-> 0]
      ELSE IF r.p = NULL THEN [m |-> [r.m EXCEPT !.fim[tip].var = NULL], ret |-> -1]
      ELSE IF ~StoreReadable(m, fip)
      THEN [m |-> [r.m EXCEPT !.fim[tip].var = r.p, !.ub = TRUE], ret |-> -1]
      ELSE [m |-> [Poke(r.m, r.p, 0, SubSeq(m.heap[m.fim[fip].var].bytes, 1, nbytes))
                     EXCEPT !.fim[tip].var = r.p],
            ret |-> 0]

\* copyFITS(tip, fip): [m, ret]
copyFITS(m, tip, fip) ==
  LET h      == copyFITSHeader(m, tip, fip)
      src    == m.fim[fip]
      nbytes == src.sw * src.sh * 2
      r      == malloc(h.m, nbytes, "copyFITS")
  IN  IF h.ret < 0 THEN h
      ELSE IF src.image = NULL THEN h
      ELSE IF r.p = NULL
      THEN [m |-> resetFImage([r.m EXCEPT !.fim[tip].image = NULL], tip), ret |-> -1]
      ELSE IF ~ImageReadable(m, fip)
      THEN [m |-> [r.m EXCEPT !.fim[tip].image = r.p, !.ub = TRUE], ret |-> -1]
      ELSE [m |-> [Poke(r.m, r.p, 0, SubSeq(m.heap[src.image].bytes, 1, nbytes))
                     EXCEPT !.fim[tip].image = r.p],
            ret |-> 0]

----------------------------------------------------------------------------
(* The environment of a call, and the inputs of the model *)

Perfect == [shortCall |-> 0, chunk |-> 0, failCall |-> 0, failRes |-> 0]

\* the calls that the model's transports disturb: the first ones, and the
\* first after a header of one block
Calls == (1..MaxFailCall) \cup {FITS_HROWS + 1}

\* a transport: perfect; or one call transfers 3 bytes at most; or one call
\* returns 0 or -1; or a call transfers 3 bytes and the next returns 0 or -1
Transports ==
  {Perfect}
    \cup {[Perfect EXCEPT !.shortCall = k, !.chunk = 3] : k \in Calls}
    \cup {[Perfect EXCEPT !.failCall = k, !.failRes = r] : k \in Calls, r \in {0, -1}}
    \cup {[shortCall |-> k, chunk |-> 3, failCall |-> k + 1, failRes |-> r] :
            k \in Calls \ {1}, r \in {0, -1}}

Env(tr, mfail, rmove) ==
  [tr |-> tr, mfail |-> mfail, rmove |-> rmove, znull |-> FALSE, junk |-> 170]

MallocFails(sites) == {[site |-> x, n |-> k] : x \in sites, k \in 1..MaxMallocFail}

\* the environments of a call that allocates from the given sites
Envs(sites) ==
  {Env(tr, NoFail, b) : tr \in Transports, b \in {FALSE}}
    \cup {Env(Perfect, NoFail, TRUE)}
    \cup {Env(Perfect, f, FALSE) : f \in MallocFails(sites)}

\* the environments of a call that makes no transfer
MemEnvs(sites) ==
  {Env(Perfect, NoFail, b) : b \in BOOLEAN}
    \cup {[Env(Perfect, NoFail, FALSE) EXCEPT !.znull = TRUE]}
    \cup {Env(Perfect, f, FALSE) : f \in MallocFails(sites)}

NoIo == Io(<<>>, Perfect)

RECURSIVE Flatten(_)
Flatten(rows) == IF rows = <<>> THEN <<>> ELSE Head(rows) \o Flatten(Tail(rows))

\* a file: the cards, END, blanks to a whole block, then the data and its zeros
FileOf(cards, data) ==
  LET hdr == Flatten(cards) \o fmtENDFITS
  IN  hdr \o Spaces((BLOCK - (Len(hdr) % BLOCK)) % BLOCK)
        \o data \o Zeros((BLOCK - (Len(data) % BLOCK)) % BLOCK)

MandatoryCards(bitpix, w, h) ==
  << fmtLogicalFITS(Key.SIMPLE, 1, NULLSTR), fmtIntFITS(Key.BITPIX, bitpix, NULLSTR),
     fmtIntFITS(Key.NAXIS, 2, NULLSTR), fmtIntFITS(Key.NAXIS1, w, NULLSTR),
     fmtIntFITS(Key.NAXIS2, h, NULLSTR) >>

\* the files a read may be given before anything is written: none, two
\* 32-bit integers (-32767 and 258), four floats (1.5, 70000, -2 and a NaN),
\* and a 16-bit file that ends in the middle of its pixels
FileInt == FileOf(MandatoryCards(32, 2, 1), <<255, 255, 128, 1, 0, 0, 1, 2>>)

FileFloat ==
  FileOf(MandatoryCards(-32, 2, 2),
         <<63, 192, 0, 0, 71, 136, 184, 0, 192, 0, 0, 0, 127, 192, 0, 0>>)

FileCut == SubSeq(FileOf(MandatoryCards(16, 2, 1), <<128, 0, 0, 1>>), 1, BLOCK + 3)

InputFiles == {<<>>, FileInt, FileFloat, FileCut}

\* the caller's images: width, height and the pixel values
Images ==
  { [w |-> 2, h |-> 1, dur |-> 0, val |-> <<65535, 32768>>],
    [w |-> 2, h |-> 2, dur |-> 1500, val |-> <<0, 32767, 258, 65280>>] }

----------------------------------------------------------------------------
(* State and actions *)

NoCall ==
  [op |-> "none", d |-> "a", ret |-> 0, errmsg |-> "", restore |-> 0,
   afail |-> FALSE, ub |-> FALSE, short |-> FALSE, eof |-> FALSE, inj |-> "none",
   pos |-> 0, arg |-> <<>>]

NoWrite == [ok |-> FALSE, whole |-> FALSE, hdr16 |-> FALSE, w |-> 0, h |-> 0, val |-> <<>>]

EmptyHeap == [a \in Addr |-> DeadBlock]

EmptyFim == [d \in Desc \cup {STACK} |-> InitFImage]

\* the caller holds img in a buffer of its own
InitWith(img, file) ==
  /\ le \in BOOLEAN
  /\ heap = [EmptyHeap EXCEPT ![1] = [live |-> TRUE, bytes |-> Shorts(img.val, le)]]
  /\ raw = [ptr |-> 1, w |-> img.w, h |-> img.h, dur |-> img.dur]
  /\ fim = EmptyFim
  /\ disk = file
  /\ wrote = NoWrite
  /\ last = NoCall
  /\ steps = 0

\* either there is no file yet, or the caller holds the smaller image
Init ==
  \E img \in Images, file \in InputFiles :
    /\ file = <<>> \/ img.w * img.h = 2
    /\ InitWith(img, file)

Live == steps < MaxSteps /\ ~last.ub

\* what every call leaves: r = [m, io, ret, errmsg]
Finish(op, d, r, restore) ==
  /\ heap' = r.m.heap
  /\ fim' = r.m.fim
  /\ last' = [op |-> op, d |-> d, ret |-> r.ret, errmsg |-> r.errmsg,
              restore |-> restore, afail |-> r.m.afail, ub |-> r.m.ub,
              short |-> r.io.short, eof |-> r.io.eof, inj |-> r.io.inj,
              pos |-> r.io.pos, arg |-> <<>>]
  /\ steps' = steps + 1
  /\ UNCHANGED <<le, raw>>

\* the call that left r met no short transfer, no failure and no refusal
Whole(r) == ~r.m.afail /\ ~r.io.short /\ r.io.inj = "none"

\* history: the image that writeFITS is given in descriptor d of m
Written(m, d) ==
  LET fip == m.fim[d]
      b   == getIntFITS(m, d, Key.BITPIX)
  IN  [ok |-> TRUE, whole |-> FALSE, hdr16 |-> b.ret = 0 /\ b.v = 16,
       w |-> fip.sw, h |-> fip.sh,
       val |-> Samples(m.heap[fip.image].bytes, fip.sw * fip.sh, le)]

\* what a write leaves: the file, and the image given if it returned 0
WriteDone(op, d, r, restore, given) ==
  /\ Finish(op, d, r, restore)
  /\ disk' = r.io.data
  /\ wrote' = IF r.ret = 0 THEN [given EXCEPT !.whole = Whole(r)] ELSE NoWrite

WriteSimple ==
  \E restore \in {0, 1}, env \in Envs({"addFImageVar", "writeFITSHeader"}) :
    /\ Live
    /\ WriteDone("writeSimpleFITS", STACK,
                 writeSimpleFITS(Machine(heap, fim, env), Io(<<>>, env.tr), le,
                                 raw.ptr, raw.w, raw.h, 0, 0, raw.dur, restore),
                 restore,
                 [ok |-> TRUE, whole |-> FALSE, hdr16 |-> TRUE, w |-> raw.w, h |-> raw.h,
                  val |-> Samples(heap[raw.ptr].bytes, raw.w * raw.h, le)])

WriteFITS(d, envs) ==
  \E restore \in {0, 1}, env \in envs :
    /\ Live
    /\ WriteDone("writeFITS", d,
                 writeFITS(Machine(heap, fim, env), d, Io(<<>>, env.tr), le, restore),
                 restore, Written(Machine(heap, fim, env), d))

ReadFITS(d) ==
  \E env \in Envs({"addFImageVar", "readFITS.image", "readFITS.imdata"}) :
    /\ Live
    /\ Finish("readFITS", d, readFITS(Machine(heap, fim, env), d, Io(disk, env.tr), le), 0)
    /\ UNCHANGED <<disk, wrote>>

ReadFITSHeader(d, envs) ==
  \E env \in envs :
    /\ Live
    /\ Finish("readFITSHeader", d, readFITSHeader(Machine(heap, fim, env), d, Io(disk, env.tr)), 0)
    /\ UNCHANGED <<disk, wrote>>

ResetFImage(d) ==
  /\ Live
  /\ Finish("resetFImage", d,
            [m |-> resetFImage(Machine(heap, fim, Env(Perfect, NoFail, FALSE)), d),
             io |-> NoIo, ret |-> 0, errmsg |-> ""], 0)
  /\ UNCHANGED <<disk, wrote>>

Next ==
  \/ WriteSimple
  \/ WriteFITS("a", Envs({"writeFITSHeader"}))
  \/ ReadFITS("a")
  \/ ReadFITSHeader("a", Envs({"addFImageVar"}))
  \/ ResetFImage("a")

Spec == Init /\ [][Next]_vars

----------------------------------------------------------------------------
(* The header store and the copies: specification SpecStore.  The caller   *)
(* holds two descriptors; a is either fresh or holds a 2x1 image under the *)
(* header of setSimpleFITSHeader, b is fresh; the file is a header that    *)
(* ends with its END card.                                                 *)

S_V404_Cyg == Str(<<"V", "4", "0", "4", " ", "C", "y", "g">>)

S_dark == Str(<<"d", "a", "r", "k">>)

\* the names given to the setters: one that a simple header holds, one
\* that it does not
SetNames == {Key.NAXIS1, Key.GAIN}

\* the values given to each kind of setter (reals in thousandths)
SetValues(kind) ==
  CASE kind = "L" -> {0, 1}
    [] kind = "I" -> {-7, 32768}
    [] kind = "R" -> {1500, -250}
    [] kind = "S" -> {S_dark, S_V404_Cyg}

\* the comments given to setCommentFITS: one card, and two
Comments == {S_dark, [i \in 1..100 |-> CH_0 + (i % 10)]}

\* the rows of the store of d
Rows(m, d) == [i \in 1..m.fim[d].nvar |-> RowAt(m, m.fim[d].var, i - 1)]

\* the caller's preparation of a
Prepared ==
  LET m0 == Machine(EmptyHeap, EmptyFim, Env(Perfect, NoFail, FALSE))
      im == malloc(m0, 4, "caller")
      m1 == [Poke(im.m, im.p, 0, Shorts(<<65535, 32768>>, TRUE))
               EXCEPT !.fim["a"].sw = 2, !.fim["a"].sh = 1,
                      !.fim["a"].bitpix = 16, !.fim["a"].image = im.p]
  IN  setSimpleFITSHeader(m1, "a")

InitStore ==
  /\ \E m \in {Prepared, Machine(EmptyHeap, EmptyFim, Env(Perfect, NoFail, FALSE))} :
       heap = m.heap /\ fim = m.fim
  /\ le = TRUE
  /\ raw = [ptr |-> NULL, w |-> 0, h |-> 0, dur |-> 0]
  /\ disk = SubSeq(FileInt, 1, 6 * FITS_HCOLS)
  /\ wrote = NoWrite
  /\ last = NoCall
  /\ steps = 0

\* what a call on the store leaves
StoreStep(op, d, m, ret, arg) ==
  /\ heap' = m.heap
  /\ fim' = m.fim
  /\ last' = [NoCall EXCEPT !.op = op, !.d = d, !.ret = ret, !.afail = m.afail,
                            !.ub = m.ub, !.arg = arg]
  /\ steps' = steps + 1
  /\ UNCHANGED <<disk, le, raw, wrote>>

\* the setter of each kind
SetAny(kind, m, d, name, v) ==
  CASE kind = "L" -> setLogicalFITS(m, d, name, v, NULLSTR)
    [] kind = "I" -> setIntFITS(m, d, name, v, Comment.Number_of_columns)
    [] kind = "R" -> setRealFITS(m, d, name, v, 6, NULLSTR)
    [] kind = "S" -> setStringFITS(m, d, name, v, NULLSTR)

\* a call of the setter of the kind: arg records the call and the store before
Set(kind, op, d) ==
  \E name \in SetNames, v \in SetValues(kind), env \in MemEnvs({"addFImageVar"}) :
    /\ Live
    /\ LET m == Machine(heap, fim, env)
       IN  StoreStep(op, d, SetAny(kind, m, d, name, v), 0,
                     [kind |-> kind, name |-> name, v |-> v,
                      rp |-> IF StoreReadable(m, d) THEN findFImageVar(m, d, name) ELSE -1,
                      nvar |-> fim[d].nvar])

SetLogical(d) == Set("L", "setLogicalFITS", d)

SetInt(d) == Set("I", "setIntFITS", d)

SetReal(d) == Set("R", "setRealFITS", d)

SetString(d) == Set("S", "setStringFITS", d)

SetComment(d) ==
  \E comment \in Comments, env \in MemEnvs({"addFImageVar"}) :
    /\ Live
    /\ StoreStep("setCommentFITS", d,
                 setCommentFITS(Machine(heap, fim, env), d, Key.COMMENT, comment), 0,
                 [name |-> Key.COMMENT, v |-> comment, nvar |-> fim[d].nvar])

DelFImageVar(d) ==
  \E name \in SetNames \cup {Key.COMMENT}, env \in MemEnvs({"delFImageVar"}) :
    /\ Live
    /\ LET r == delFImageVar(Machine(heap, fim, env), d, name)
       IN  StoreStep("delFImageVar", d, r.m, r.ret, [name |-> name, nvar |-> fim[d].nvar])

CopyFITSHeader(tip, fip) ==
  \E env \in MemEnvs({"copyFITSHeader"}) :
    /\ Live
    /\ LET r == copyFITSHeader(Machine(heap, fim, env), tip, fip)
       IN  StoreStep("copyFITSHeader", tip, r.m, r.ret, [fip |-> fip])

CopyFITS(tip, fip) ==
  \E env \in MemEnvs({"copyFITSHeader", "copyFITS"}) :
    /\ Live
    /\ LET r == copyFITS(Machine(heap, fim, env), tip, fip)
       IN  StoreStep("copyFITS", tip, r.m, r.ret, [fip |-> fip])

NextStore ==
  \/ SetLogical("a")
  \/ SetInt("a")
  \/ SetReal("a")
  \/ SetString("a")
  \/ SetComment("a")
  \/ DelFImageVar("a")
  \/ \E tip \in Desc : CopyFITSHeader(tip, CHOOSE fip \in Desc : fip # tip)
  \/ \E tip \in Desc : CopyFITS(tip, CHOOSE fip \in Desc : fip # tip)
  \/ \E d \in Desc : ResetFImage(d)
  \/ ReadFITSHeader("b", MemEnvs({"addFImageVar"}))

SpecStore == InitStore /\ [][NextStore]_vars

----------------------------------------------------------------------------
(* Header validation: specification SpecHdr.  The file is one header block *)
(* made of any choice of the cards that readFITSHeader looks at, each      *)
(* present or absent, with the values below.                               *)

MaxNaxis == 4

\* none, or the one card
Maybe(cards) == {<<>>} \cup {<<c>> : c \in cards}

NAXISi(i) == Key.NAXIS \o Dec(i)

\* for each axis above 2, no card or the card with length 1 or 2
RECURSIVE HigherAxes(_)
HigherAxes(i) ==
  IF i > MaxNaxis THEN {<<>>}
  ELSE {c \o rest : c \in Maybe({fmtIntFITS(NAXISi(i), v, NULLSTR) : v \in {1, 2}}),
                    rest \in HigherAxes(i + 1)}

HeaderFiles ==
  {FileOf(s \o b \o n \o n1 \o n2 \o hi, <<>>) :
     s  \in Maybe({fmtLogicalFITS(Key.SIMPLE, v, NULLSTR) : v \in {0, 1}}),
     b  \in Maybe({fmtIntFITS(Key.BITPIX, v, NULLSTR) : v \in {16, 32, -32, 64}}),
     n  \in Maybe({fmtIntFITS(Key.NAXIS, v, NULLSTR) : v \in 0..MaxNaxis}),
     n1 \in Maybe({fmtIntFITS(Key.NAXIS1, 2, NULLSTR)}),
     n2 \in Maybe({fmtIntFITS(Key.NAXIS2, 1, NULLSTR)}),
     hi \in HigherAxes(3)}

InitHdr ==
  /\ heap = EmptyHeap
  /\ fim = EmptyFim
  /\ le = TRUE
  /\ raw = [ptr |-> NULL, w |-> 0, h |-> 0, dur |-> 0]
  /\ disk \in HeaderFiles
  /\ wrote = NoWrite
  /\ last = NoCall
  /\ steps = 0

NextHdr == ReadFITSHeader("a", {Env(Perfect, NoFail, FALSE)})

SpecHdr == InitHdr /\ [][NextHdr]_vars

----------------------------------------------------------------------------
(* Block alignment: specification SpecPad.  Descriptor a holds a store of  *)
(* a chosen number of cards and an image of a chosen number of pixels.     *)

\* the store lengths: around one block of 36 cards, END counted
StoreSizes == {0, 1, 35, 36}

\* the pixel counts: around one block of 1440 pixels
PixelCounts == {1, 1440, 1441}

\* the store that setIntFITS leaves when called for K1 .. Kn in turn:
\* one block with the n cards, in that order
Filled(m, d, n) ==
  LET cards == Flatten([i \in 1..n |-> fmtIntFITS(<<Ord("K")>> \o Dec(i), i, NULLSTR)])
      r     == malloc(m, n * FITS_HCOLS, "addFImageVar")
  IN  IF n = 0 THEN m
      ELSE [Poke(r.m, r.p, 0, cards) EXCEPT !.fim[d].var = r.p, !.fim[d].nvar = n]

\* the caller's image of npix pixels with its store of n cards
Loaded(n, npix, lend) ==
  LET m0 == Machine(EmptyHeap, EmptyFim, Env(Perfect, NoFail, FALSE))
      im == malloc(m0, 2 * npix, "caller")
      m1 == [Poke(im.m, im.p, 0, Shorts([k \in 1..npix |-> (k * 257) % 65536], lend))
               EXCEPT !.fim["a"].sw = npix, !.fim["a"].sh = 1,
                      !.fim["a"].bitpix = 16, !.fim["a"].image = im.p]
  IN  Filled(m1, "a", n)

InitPad ==
  /\ le \in BOOLEAN
  /\ \E n \in StoreSizes, npix \in PixelCounts :
       /\ heap = Loaded(n, npix, le).heap
       /\ fim = Loaded(n, npix, le).fim
  /\ raw = [ptr |-> NULL, w |-> 0, h |-> 0, dur |-> 0]
  /\ disk = <<>>
  /\ wrote = NoWrite
  /\ last = NoCall
  /\ steps = 0

\* the environments of SpecPad: memory is granted, or the header's is not
PadEnvs ==
  {Env(Perfect, NoFail, FALSE), Env(Perfect, [site |-> "writeFITSHeader", n |-> 1], FALSE)}

WriteFITSHeader(d) ==
  \E env \in PadEnvs :
    /\ Live
    /\ LET r == writeFITSHeader(Machine(heap, fim, env), d, Io(<<>>, env.tr))
       IN  /\ Finish("writeFITSHeader", d, r, 0)
           /\ disk' = r.io.data
           /\ wrote' = wrote

NextPad ==
  \/ WriteFITSHeader("a")
  \/ WriteFITS("a", PadEnvs)

SpecPad == InitPad /\ [][NextPad]_vars

----------------------------------------------------------------------------
(* The end of the header: specification SpecEnd.  The file holds the five  *)
(* mandatory cards of a 2x1 image of 16 bits, then more cards, END or not, *)
(* and stops at a card boundary or inside a card.                          *)

\* the cards K1 .. Kn
Extra(n) == [i \in 1..n |-> fmtIntFITS(<<Ord("K")>> \o Dec(i), i, NULLSTR)]

\* the header cards of the files, END not among them
EndHeaders ==
  LET mand == MandatoryCards(16, 2, 1)
  IN  [plain   |-> mand,
       endtime |-> mand \o <<fmtStringFITS(Key.ENDTIME, S_dark, NULLSTR)>> \o Extra(1)]

\* the files: whole files with their pixels; a header that stops before
\* END, inside END, at END and inside the card after END; cards that are
\* not blank between END and the end of the block
EndFiles ==
  LET pixels == <<128, 0, 0, 1>>
      plain  == Flatten(EndHeaders.plain)
      odd    == Flatten(EndHeaders.endtime)
  IN  {FileOf(EndHeaders[k], pixels) : k \in DOMAIN EndHeaders}
        \cup { plain,
               plain \o SubSeq(fmtENDFITS, 1, 40),
               plain \o fmtENDFITS,
               plain \o fmtENDFITS \o Spaces(40),
               plain \o fmtENDFITS \o Flatten(Extra(FITS_HROWS - 6)) \o pixels,
               odd,
               odd \o fmtENDFITS }

InitEnd ==
  /\ heap = EmptyHeap
  /\ fim = EmptyFim
  /\ le = TRUE
  /\ raw = [ptr |-> NULL, w |-> 0, h |-> 0, dur |-> 0]
  /\ disk \in EndFiles
  /\ wrote = NoWrite
  /\ last = NoCall
  /\ steps = 0

NextEnd ==
  \/ ReadFITSHeader("a", Envs({"addFImageVar"}))
  \/ ReadFITS("a")

SpecEnd == InitEnd /\ [][NextEnd]_vars

----------------------------------------------------------------------------
(* The getters: specification SpecGet.  Descriptor a holds the simple      *)
(* header, a string card and a comment card, or nothing.                   *)

\* the names asked for: cards of each kind, and a name that no card has
GetNames == {Key.SIMPLE, Key.NAXIS1, Key.EXPTIME, Key.GAIN, Key.COMMENT, Key.ENDTIME}

InitGet ==
  /\ \E m \in {setCommentFITS(setStringFITS(Prepared, "a", Key.GAIN, S_dark, NULLSTR),
                                "a", Key.COMMENT, S_V404_Cyg),
                 Machine(EmptyHeap, EmptyFim, Env(Perfect, NoFail, FALSE))} :
       heap = m.heap /\ fim = m.fim
  /\ le = TRUE
  /\ raw = [ptr |-> NULL, w |-> 0, h |-> 0, dur |-> 0]
  /\ disk = <<>>
  /\ wrote = NoWrite
  /\ last = NoCall
  /\ steps = 0

\* a getter that leaves the store alone: r = [ret, ...]
Got(op, d, name, r) ==
  StoreStep(op, d, Machine(heap, fim, Env(Perfect, NoFail, FALSE)), r.ret,
            [name |-> name, got |-> r])

GetLogical(d) ==
  \E name \in GetNames :
    Live /\ Got("getLogicalFITS", d, name, getLogicalFITS(Machine(heap, fim, Env(Perfect, NoFail, FALSE)), d, name))

GetInt(d) ==
  \E name \in GetNames :
    Live /\ Got("getIntFITS", d, name, getIntFITS(Machine(heap, fim, Env(Perfect, NoFail, FALSE)), d, name))

GetReal(d) ==
  \E name \in GetNames :
    Live /\ Got("getRealFITS", d, name, getRealFITS(Machine(heap, fim, Env(Perfect, NoFail, FALSE)), d, name))

GetString(d) ==
  \E name \in GetNames :
    Live /\ Got("getStringFITS", d, name, getStringFITS(Machine(heap, fim, Env(Perfect, NoFail, FALSE)), d, name))

GetNAXIS(d) ==
  Live /\ Got("getNAXIS", d, Key.NAXIS, getNAXIS(Machine(heap, fim, Env(Perfect, NoFail, FALSE)), d))

\* getCommentFITS writes to the row it finds
GetComment(d) ==
  \E name \in GetNames :
    /\ Live
    /\ LET r == getCommentFITS(Machine(heap, fim, Env(Perfect, NoFail, FALSE)), d, name)
       IN  StoreStep("getCommentFITS", d, r.m, r.ret,
                     [name |-> name, got |-> [ret |-> r.ret, buf |-> r.buf]])

NextGet ==
  \/ GetLogical("a")
  \/ GetInt("a")
  \/ GetReal("a")
  \/ GetString("a")
  \/ GetComment("a")
  \/ GetNAXIS("a")

SpecGet == InitGet /\ [][NextGet]_vars

----------------------------------------------------------------------------
(* Claims about reading and writing files (specification Spec) *)

\* the call was not disturbed: whole transfers, no failure, memory granted
Clean == ~last.afail /\ ~last.short /\ last.inj = "none" /\ ~last.ub

\* the image of descriptor d as internal values
ImageOf(d) == Samples(heap[fim[d].image].bytes, fim[d].sw * fim[d].sh, le)

\* the two bytes of a FITS pixel: v - BZERO as a big-endian signed short
FitsBytes(v) ==
  LET p == IF v >= BZERO THEN v - BZERO ELSE v - BZERO + 65536
  IN  <<p \div 256, p % 256>>

\* the pixel bytes a file holds for the values val
FitsData(val) ==
  [i \in 1..(2 * Len(val)) |-> FitsBytes(val[((i - 1) \div 2) + 1])[((i - 1) % 2) + 1]]

(* C1: a buffer of w*h unsigned 16-bit samples written by writeSimpleFITS  *)
(* or writeFITS under a BITPIX=16 header and read back by readFITS, both   *)
(* calls undisturbed, yields ret = 0, sw = w, sh = h and the same samples; *)
(* the bytes of the file are the big-endian signed pixels whatever         *)
(* lendian() returns, so the result is the same on both branches.          *)
C1_RoundTrip ==
  /\ (last.op \in {"writeSimpleFITS", "writeFITS"} /\ wrote.ok) =>
       SubSeq(disk, Len(disk) - BLOCK + 1, Len(disk) - BLOCK + 2 * wrote.w * wrote.h)
         = FitsData(wrote.val)
  /\ (last.op = "readFITS" /\ wrote.ok /\ wrote.whole /\ wrote.hdr16 /\ Clean) =>
       /\ last.ret = 0
       /\ fim[last.d].sw = wrote.w
       /\ fim[last.d].sh = wrote.h
       /\ fim[last.d].image # NULL
       /\ ImageOf(last.d) = wrote.val

C1_Witness ==
  /\ last.op = "readFITS" /\ wrote.ok /\ wrote.whole /\ wrote.hdr16 /\ Clean
  /\ ~le
  /\ wrote.w = 2 /\ wrote.h = 2
  /\ last.ret = 0

(* C3: when restore is non-zero the pixel buffer given to writeFITS holds  *)
(* its original bytes when writeFITS returns, on every return path.        *)
C3_RestoredOnEveryPath ==
  [][/\ (last'.op = "writeSimpleFITS" /\ last'.restore # 0 /\ ~last'.ub)
          => heap'[raw.ptr].bytes = heap[raw.ptr].bytes
     /\ (last'.op = "writeFITS" /\ last'.restore # 0 /\ ~last'.ub
           /\ fim[last'.d].image # NULL)
          => heap'[fim[last'.d].image].bytes = heap[fim[last'.d].image].bytes]_vars

(* C4 as claimed: whenever readFITSHeader, readFITS or writeFITS returns   *)
(* -1 the descriptor is in the reset default state.                        *)
C4_ResetOnEveryFailure ==
  (last.op \in {"readFITSHeader", "readFITS", "writeFITS"} /\ last.ret = -1 /\ ~last.ub)
    => fim[last.d] = InitFImage

(* C4 as amended: whenever readFITSHeader or readFITS returns -1 the       *)
(* descriptor is in the reset default state (nvar = 0, no header storage,  *)
(* no pixel buffer, scalars 0, binning 1); whenever writeFITS returns -1   *)
(* the descriptor's fields and its header store are what they were before  *)
(* the call: writeFITS never resets.                                       *)
C4_ResetOnReadFailure ==
  [][/\ (last'.op \in {"readFITSHeader", "readFITS"} /\ last'.ret = -1)
          => fim'[last'.d] = InitFImage
     /\ (last'.op = "writeFITS" /\ last'.ret = -1 /\ ~last'.ub)
          => /\ fim'[last'.d] = fim[last'.d]
             /\ fim[last'.d].var # NULL
                  => heap'[fim[last'.d].var] = heap[fim[last'.d].var]]_vars

C4_Witness ==
  /\ last.op = "readFITS" /\ last.ret = -1
  /\ last.inj = "neg" /\ last.pos >= BLOCK

\* what the call last' records would have left, had every transfer been whole
Undisturbed ==
  LET m == Machine(heap, fim, Env(Perfect, NoFail, FALSE))
      d == last'.d
  IN  CASE last'.op = "readFITS" -> readFITS(m, d, Io(disk, Perfect), le)
        [] last'.op = "readFITSHeader" -> readFITSHeader(m, d, Io(disk, Perfect))
        [] last'.op = "writeFITS" -> writeFITS(m, d, Io(<<>>, Perfect), le, last'.restore)
        [] last'.op = "writeSimpleFITS" ->
             writeSimpleFITS(m, Io(<<>>, Perfect), le, raw.ptr, raw.w, raw.h, 0, 0,
                             raw.dur, last'.restore)

(* C6: on a transport whose calls may transfer less than asked but always  *)
(* make progress, every transfer is retried to completion: the call ends   *)
(* as it would have with whole transfers.                                  *)
C6_PartialTransfersRetried ==
  [][(last'.op \in {"readFITS", "readFITSHeader", "writeFITS", "writeSimpleFITS"}
        /\ last'.inj = "none" /\ ~last'.afail /\ ~last'.ub)
       => /\ last'.ret = Undisturbed.ret
          /\ fim' = Undisturbed.m.fim
          /\ last'.op \in {"writeFITS", "writeSimpleFITS"} => disk' = Undisturbed.io.data]_vars

(* C8: after a successful readFITS, whatever the BITPIX of the file,       *)
(* fip->bitpix is 16 and the pixel buffer holds exactly sw*sh converted    *)
(* samples; after a failed readFITS the descriptor holds no pixel buffer.  *)
C8_LoadNormalised ==
  (last.op = "readFITS") =>
    IF last.ret = 0
    THEN /\ fim[last.d].bitpix = 16
         /\ fim[last.d].image # NULL
         /\ heap[fim[last.d].image].live
         /\ Len(heap[fim[last.d].image].bytes) = fim[last.d].sw * fim[last.d].sh * 2
         /\ disk = FileInt => ImageOf(last.d) = <<1, 33026>>
         /\ disk = FileFloat => SubSeq(ImageOf(last.d), 1, 3) = <<1, 65535, 0>>
    ELSE /\ last.ret = -1
         /\ fim[last.d].image = NULL

C8_Witness ==
  /\ last.op = "readFITS" /\ last.ret = 0
  /\ disk = FileFloat
  /\ fim[last.d].bitpix = 16
  /\ fim[last.d].sw * fim[last.d].sh = 4

----------------------------------------------------------------------------
(* Claims about the header store and the copies (specification SpecStore) *)

Quiet == Env(Perfect, NoFail, FALSE)

SetOps == {"setLogicalFITS", "setIntFITS", "setRealFITS", "setStringFITS"}

\* what the getter of the kind reads: [ret, v]
GetAny(kind, m, d, name) ==
  CASE kind = "L" -> getLogicalFITS(m, d, name)
    [] kind = "I" -> getIntFITS(m, d, name)
    [] kind = "R" -> getRealFITS(m, d, name)
    [] kind = "S" -> [ret |-> getStringFITS(m, d, name).ret,
                      v   |-> getStringFITS(m, d, name).string]

\* the indices (from 1) of the cards of d whose keyword is name
CardsNamed(m, d, name) ==
  {i \in 1..m.fim[d].nvar : SubSeq(Rows(m, d)[i], 1, 8) = PadTrunc(name, 8)}

\* m0 is the store before the first set of name, m1 the store after it;
\* the second set, of v2, is made here
TwoSets(m0, m1, d, kind, name, v2) ==
  LET m2 == SetAny(kind, m1, d, name, v2)
      rp == findFImageVar(m0, d, name)
      n0 == m0.fim[d].nvar
  IN  /\ ~m2.ub /\ ~m2.afail
      /\ Cardinality(CardsNamed(m2, d, name)) = 1
      /\ GetAny(kind, m2, d, name) = [ret |-> 0, v |-> v2]
      /\ m2.fim[d].nvar = m1.fim[d].nvar
      /\ IF rp >= 0
         THEN /\ findFImageVar(m2, d, name) = rp
              /\ m2.fim[d].nvar = n0
              /\ \A i \in 1..n0 : i # rp + 1 => Rows(m2, d)[i] = Rows(m0, d)[i]
         ELSE /\ findFImageVar(m2, d, name) = n0
              /\ m2.fim[d].nvar = n0 + 1
              /\ SubSeq(Rows(m2, d), 1, n0) = Rows(m0, d)

(* C2: for a store that holds at most one card named name, two successive  *)
(* set calls of one kind for name, with values v1 then v2, whose           *)
(* allocations succeed, leave exactly one card for name, which the getter  *)
(* reads as v2; a card that was there keeps its index and the other cards  *)
(* are unchanged, else the card is appended at the end; the second call    *)
(* does not change nvar.                                                   *)
C2_SetTwice ==
  [][(/\ last'.op \in SetOps
      /\ ~last'.afail /\ ~last'.ub
      /\ Cardinality(CardsNamed(Machine(heap, fim, Quiet), last'.d, last'.arg.name)) <= 1)
       => \A v2 \in SetValues(last'.arg.kind) :
            TwoSets(Machine(heap, fim, Quiet), Machine(heap', fim', Quiet),
                    last'.d, last'.arg.kind, last'.arg.name, v2)]_vars

C2_Witness ==
  /\ last.op = "setIntFITS" /\ ~last.afail /\ ~last.ub
  /\ last.arg.name = Key.NAXIS1 /\ last.arg.rp = 3 /\ last.arg.v = 32768
  /\ fim["a"].nvar = 12
  /\ getIntFITS(Machine(heap, fim, Quiet), "a", Key.NAXIS1) = [ret |-> 0, v |-> 32768]

(* C9: in every state reached by set, setCommentFITS, delFImageVar,        *)
(* readFITSHeader, copyFITSHeader, copyFITS and resetFImage calls, failed  *)
(* allocations included, nvar > 0 implies that the storage exists and      *)
(* holds nvar cards.                                                       *)
C9_CountMatchesStorage ==
  ~last.ub =>
    \A d \in Desc :
      fim[d].nvar > 0 =>
        /\ fim[d].var # NULL
        /\ heap[fim[d].var].live
        /\ Len(heap[fim[d].var].bytes) >= fim[d].nvar * FITS_HCOLS

\* the blocks that descriptor d of f points to
Owned(f, d) == {f[d].var, f[d].image} \ {NULL}

Scalars(fip) == [fip EXCEPT !.var = NULL, !.image = NULL]

(* C10: a successful copyFITSHeader(tip, fip), tip # fip, gives tip the    *)
(* fields and the cards of fip in a fresh block and leaves tip its own     *)
(* pixel buffer; a successful copyFITS gives tip also a fresh block with   *)
(* the sw*sh samples of fip; no two descriptors ever point to one block,   *)
(* every block a descriptor points to is allocated, and resetFImage of one *)
(* descriptor frees nothing twice and leaves the other descriptor and its  *)
(* blocks unchanged.                                                       *)
C10_CopiesAreSeparate ==
  [][LET op  == last'.op
         tip == last'.d
     IN  /\ (op \in {"copyFITSHeader", "copyFITS"} /\ last'.ret = 0) =>
              LET fip == last'.arg.fip
                  src == fim[fip]
                  dst == fim'[tip]
              IN  /\ Scalars(dst) = Scalars(src)
                  /\ fim'[fip] = src
                  /\ \A p \in Owned(fim, fip) : heap'[p] = heap[p]
                  /\ src.var = NULL => dst.var = NULL
                  /\ src.var # NULL =>
                       /\ dst.var # NULL /\ ~heap[dst.var].live /\ heap'[dst.var].live
                       /\ heap'[dst.var].bytes
                            = SubSeq(heap[src.var].bytes, 1, src.nvar * FITS_HCOLS)
                  /\ (op = "copyFITSHeader" \/ src.image = NULL) =>
                       dst.image = fim[tip].image
                  /\ (op = "copyFITS" /\ src.image # NULL) =>
                       /\ dst.image # NULL /\ ~heap[dst.image].live
                       /\ heap'[dst.image].live
                       /\ heap'[dst.image].bytes
                            = SubSeq(heap[src.image].bytes, 1, src.sw * src.sh * 2)
         /\ op = "resetFImage" =>
              /\ ~last'.ub
              /\ \A o \in Desc \ {tip} :
                   /\ fim'[o] = fim[o]
                   /\ \A p \in Owned(fim, o) : heap'[p] = heap[p]
         /\ ~last'.ub =>
              /\ \A d \in Desc : \A p \in Owned(fim', d) : heap'[p].live
              /\ \A d \in Desc : \A o \in Desc \ {d} :
                   Owned(fim', d) \cap Owned(fim', o) = {}]_vars

C10_Witness ==
  /\ last.op = "resetFImage" /\ last.d = "a" /\ ~last.ub
  /\ fim["a"] = InitFImage
  /\ fim["b"].nvar = 12 /\ fim["b"].var # NULL /\ fim["b"].image # NULL
  /\ heap[fim["b"].var].live /\ heap[fim["b"].image].live
  /\ ImageOf("b") = <<65535, 32768>>

----------------------------------------------------------------------------
(* Claims about header validation (SpecHdr) and block alignment (SpecPad) *)

\* the 80-byte cards of the first block of the file
FileCards == {SubSeq(disk, 80 * i + 1, 80 * i + 80) : i \in 0..((Len(disk) \div 80) - 1)}

\* the conditions of the specification, read off the cards of the file
ValidHeader ==
  /\ fmtLogicalFITS(Key.SIMPLE, 1, NULLSTR) \in FileCards
  /\ \E b \in {16, 32, -32} : fmtIntFITS(Key.BITPIX, b, NULLSTR) \in FileCards
  /\ \E n \in 2..MaxNaxis :
       /\ fmtIntFITS(Key.NAXIS, n, NULLSTR) \in FileCards
       /\ \A i \in 3..n : fmtIntFITS(NAXISi(i), 1, NULLSTR) \in FileCards
  /\ fmtIntFITS(Key.NAXIS1, 2, NULLSTR) \in FileCards
  /\ fmtIntFITS(Key.NAXIS2, 1, NULLSTR) \in FileCards

(* C5: readFITSHeader on a well-formed header block succeeds if and only   *)
(* if SIMPLE is true, BITPIX is 16, 32 or -32, NAXIS is at least 2, every  *)
(* NAXISi with 3 <= i <= NAXIS is present and 1, and NAXIS1 and NAXIS2 are *)
(* present.                                                                *)
C5_AcceptsIffValid ==
  last.op = "readFITSHeader" => (last.ret = 0 <=> ValidHeader)

\* the length of the header block written for a store of nvar cards
HeaderLen(nvar) == BLOCK * ((nvar + 1 + FITS_HROWS - 1) \div FITS_HROWS)

\* the file begins with the cards of d, END and blank cards up to a block
HeaderWritten(d) ==
  LET nvar == fim[d].nvar
      used == (nvar + 1) * FITS_HCOLS
  IN  /\ Len(disk) >= HeaderLen(nvar)
      /\ nvar > 0 => SubSeq(disk, 1, nvar * FITS_HCOLS)
                       = SubSeq(heap[fim[d].var].bytes, 1, nvar * FITS_HCOLS)
      /\ SubSeq(disk, nvar * FITS_HCOLS + 1, used) = PadTrunc(Key.END, FITS_HCOLS)
      /\ SubSeq(disk, used + 1, HeaderLen(nvar)) = Spaces(HeaderLen(nvar) - used)

(* C7: after a successful writeFITSHeader the bytes written are the nvar   *)
(* cards of the store in order, one END card and blank cards, a multiple   *)
(* of 2880 bytes in all; after a successful writeFITS the pixel bytes      *)
(* (sw*sh*2) and the zero bytes that follow them make a multiple of 2880,  *)
(* and no zero byte follows pixel bytes that are a multiple of 2880.       *)
C7_BlockAligned ==
  /\ (last.op = "writeFITSHeader" /\ last.ret = 0) =>
       /\ HeaderWritten(last.d)
       /\ Len(disk) = HeaderLen(fim[last.d].nvar)
       /\ Len(disk) % BLOCK = 0
  /\ (last.op = "writeFITS" /\ last.ret = 0) =>
       LET fip    == fim[last.d]
           nbytes == fip.sw * fip.sh * 2
           start  == HeaderLen(fip.nvar)
           npad   == Len(disk) - start - nbytes
       IN  /\ HeaderWritten(last.d)
           /\ npad >= 0 /\ npad < BLOCK
           /\ (nbytes + npad) % BLOCK = 0
           /\ nbytes % BLOCK = 0 => npad = 0
           /\ SubSeq(disk, start + 1, start + nbytes) = FitsData(wrote.val)
           /\ SubSeq(disk, start + nbytes + 1, Len(disk)) = Zeros(npad)

C7_Witness ==
  /\ last.op = "writeFITS" /\ last.ret = 0
  /\ fim[last.d].nvar = 36
  /\ fim[last.d].sw * fim[last.d].sh = 1440
  /\ Len(disk) = 3 * BLOCK

----------------------------------------------------------------------------
(* Claims about the end of the header (specification SpecEnd) *)

\* the whole cards of the file, in order
DiskCards ==
  [i \in 1..(Len(disk) \div FITS_HCOLS) |->
     SubSeq(disk, (i - 1) * FITS_HCOLS + 1, i * FITS_HCOLS)]

\* the END card of the specification: the keyword field is END and blanks
IsEND(card) == SubSeq(card, 1, 8) = PadTrunc(Key.END, 8)

\* the test of readFITSHeader: the card begins with the letters END
BeginsEND(card) == SubSeq(card, 1, 3) = Key.END

\* the number of the first card of the file that passes the test, or 0
FirstCard(Test(_)) ==
  LET hits == {i \in DOMAIN DiskCards : Test(DiskCards[i])}
  IN  IF hits = {} THEN 0 ELSE CHOOSE i \in hits : \A j \in hits : i <= j

\* the number of cards in the blocks that hold cards 1 .. e
BlockEnd(e) == FITS_HROWS * ((e + FITS_HROWS - 1) \div FITS_HROWS)

\* the three cases of the header read, END being card e of the file (0: no
\* END): the transfers stop before the whole of END is read; the data ends
\* after END and before the end of the block; the block is there
ShortReads(e) ==
  LET fip == fim[last.d]
      k   == Len(DiskCards)
  IN  last.op = "readFITSHeader" =>
        /\ (e = 0 \/ last.pos < e * FITS_HCOLS) =>
             (last.ret = -1 /\ fip = InitFImage)
        /\ (Clean /\ e > 0 /\ k < BlockEnd(e)) =>
             (last.ret = 0 /\ last.eof /\ fip.nvar = e - 1)
        /\ (Clean /\ e > 0 /\ k >= BlockEnd(e)) =>
             (last.ret = 0 /\ ~last.eof /\ fip.nvar = e - 1
                /\ last.pos = BlockEnd(e) * FITS_HCOLS)

(* C11: in readFITSHeader a read that returns fewer than 80 bytes before   *)
(* an END card has been read makes the call fail with the descriptor       *)
(* reset; end of data after END ends the header successfully although the  *)
(* number of cards read is not a multiple of 36; when the data is there,   *)
(* the cards after END are read and not stored until the number of cards   *)
(* read is a multiple of 36.                                               *)
C11_ShortReadsAroundEND == ShortReads(FirstCard(IsEND))

\* the same with END taken to be what readFITSHeader takes it to be
ShortReadsAsCoded == ShortReads(FirstCard(BeginsEND))

\* the store of d holds the cards of the file before card e, in order
StoredBefore(d, e) ==
  /\ e > 0
  /\ fim[d].nvar = e - 1
  /\ e > 1 => SubSeq(heap[fim[d].var].bytes, 1, (e - 1) * FITS_HCOLS)
                = SubSeq(disk, 1, (e - 1) * FITS_HCOLS)

(* C12: after a successful readFITSHeader the store holds, in file order,  *)
(* exactly the cards before the first card whose keyword field is END      *)
(* followed by blanks; a card whose keyword begins with END, such as       *)
(* ENDTIME, is stored and does not end the header.                         *)
C12_StoredUpToEND ==
  (last.op = "readFITSHeader" /\ last.ret = 0 /\ ~last.afail) =>
    StoredBefore(last.d, FirstCard(IsEND))

\* the same with END taken to be what readFITSHeader takes it to be
StoredAsCoded ==
  (last.op = "readFITSHeader" /\ last.ret = 0 /\ ~last.afail) =>
    StoredBefore(last.d, FirstCard(BeginsEND))

----------------------------------------------------------------------------
(* Claims about messages and written files (specification Spec) *)

\* the calls that transfer, and the messages they give for missing data
Transfers == {"writeFITS", "writeSimpleFITS", "readFITS", "readFITSHeader"}

ShortMessages ==
  {"Short write of FITS header", "Short write of FITS pixels", "Error adding padding",
   "header is short", "data is short"}

(* C13: when a transfer of writeFITS, pad_2880, readFITS, readFITSHeader   *)
(* or writeFITSHeader is incomplete, the message tells the cause: the      *)
(* system message if read or write returned a negative value, the short-   *)
(* data message of the operation if it returned zero or a short count; the *)
(* two are never the same message.                                         *)
C13_MessageTellsCause ==
  (last.op \in Transfers /\ last.ret = -1 /\ ~last.afail /\ ~last.ub) =>
    /\ last.inj = "neg" => last.errmsg = "strerror"
    /\ last.inj = "zero" => last.errmsg \in ShortMessages

\* the same for the transfers whose test is on the result of the call: the
\* reads, and the write of the header (nothing is written when it fails)
MessageTellsCauseElsewhere ==
  (/\ last.op \in {"readFITS", "readFITSHeader"}
        \/ (last.op \in {"writeFITS", "writeSimpleFITS"} /\ Len(disk) < BLOCK)
   /\ last.ret = -1 /\ ~last.afail /\ ~last.ub) =>
    /\ last.inj = "neg" => last.errmsg = "strerror"
    /\ last.inj = "zero" => last.errmsg \in ShortMessages

\* the file read into descriptor b by a call that nothing disturbs
ReadBack == readFITS(Machine(heap, fim, Quiet), "b", Io(disk, Perfect), le)

(* C14: the file that writeFITS writes is consistent: its BITPIX card is   *)
(* 16, as its samples of 2 bytes are, and reading it with readFITS         *)
(* succeeds and gives the pixel buffer that was written, also when the     *)
(* descriptor was loaded from a file whose BITPIX was 32 or -32.           *)
C14_WrittenFileConsistent ==
  (last.op = "writeFITS" /\ last.ret = 0 /\ wrote.whole) =>
    /\ readFITSHeader(Machine(heap, fim, Quiet), "b", Io(disk, Perfect)).m.fim["b"].bitpix = 16
    /\ ReadBack.ret = 0
    /\ LET fip == ReadBack.m.fim["b"]
       IN  /\ fip.sw = wrote.w /\ fip.sh = wrote.h
           /\ Samples(ReadBack.m.heap[fip.image].bytes, fip.sw * fip.sh, le) = wrote.val

----------------------------------------------------------------------------
(* Claims about the getters (specification SpecGet) *)

GetOps ==
  {"getLogicalFITS", "getIntFITS", "getRealFITS", "getStringFITS", "getCommentFITS",
   "getNAXIS"}

\* the bytes of the cards of d
StoreBytes(h, f, d) ==
  IF f[d].nvar = 0 THEN <<>> ELSE SubSeq(h[f[d].var].bytes, 1, f[d].nvar * FITS_HCOLS)

(* C15: no getter changes the store: after getLogicalFITS, getIntFITS,     *)
(* getRealFITS, getStringFITS, getCommentFITS or getNAXIS, found or not,   *)
(* every card is byte for byte what it was and nvar is unchanged.          *)
C15_GettersLeaveStore ==
  [][last'.op \in GetOps =>
       /\ fim'[last'.d].nvar = fim[last'.d].nvar
       /\ StoreBytes(heap', fim', last'.d) = StoreBytes(heap, fim, last'.d)]_vars

\* the same for the getters other than getCommentFITS
OtherGettersLeaveStore ==
  [][last'.op \in GetOps \ {"getCommentFITS"} =>
       /\ fim'[last'.d].nvar = fim[last'.d].nvar
       /\ StoreBytes(heap', fim', last'.d) = StoreBytes(heap, fim, last'.d)]_vars

====
